---- MODULE Spec2Model ----
(***************************************************************************)
(* Contact-form submission pipeline of the resume website:                 *)
(*   - the browser's submit handler (initFormSubmission, validateForm,     *)
(*     showSuccessMessage, showSubmissionError), and                       *)
(*   - the endpoint process_form.php (method check, sanitising,            *)
(*     validation, honeypot, insert through mysqli, JSON response).        *)
(* Text is a sequence of one-character strings, so that trimming,          *)
(* escaping, byte length and pattern matching are computed, not assumed.   *)
(***************************************************************************)
EXTENDS Integers, Sequences, FiniteSets, TLC

\* ------------------------------------------------------------------------
\* Bounds of the model
\* ------------------------------------------------------------------------
MaxRows == 2
MaxId == 3
MaxSubmits == 2

\* ------------------------------------------------------------------------
\* Program constants (process_form.php, validateForm)
\* ------------------------------------------------------------------------
MinNameLen == 2
MaxNameLen == 100
MaxEmailLen == 255
MinSubjectLen == 3
MaxSubjectLen == 255
MinMessageLen == 10
MaxMessageLen == 5000
ClientMinMessageLen == 10

\* ------------------------------------------------------------------------
\* Text
\* ------------------------------------------------------------------------
Rep(c, n) == [i \in 1..n |-> c]

\* Characters that UTF-8 (the encoding FormData uses) stores in two bytes.
TwoByteChars == {"U+00E9"}
Whitespace == {" "}

S_job == <<"j", "o", "b">>
S_Job == <<"J", "o", "b">>
S_project == <<"p", "r", "o", "j", "e", "c", "t">>
S_feedback == <<"f", "e", "e", "d", "b", "a", "c", "k">>
S_other == <<"o", "t", "h", "e", "r">>
S_zero == <<"0">>
S_J == <<"J">>
S_Jo == <<"J", "o">>
S_eacute == <<"U+00E9">>
S_Hi == <<"H", "i">>
S_Hey == <<"H", "e", "y">>
S_bad == <<"b", "a", "d">>
S_mail == <<"a", "@", "b", ".", "c">>
S_mailNoDot == <<"a", "@", "b">>
S_spamUrl == <<"h", "t", "t", "p", ":", "/", "/", "s">>
S_Jane == <<"J", "a", "n", "e">>
S_JanePadded == <<" ", "J", "o", " ">>
S_short == <<"s", "h", "o", "r", "t">>
S_nine == <<"9">>

\* PHP strlen(): the number of bytes.
strlen(s) == Len(s) + Cardinality({i \in DOMAIN s : s[i] \in TwoByteChars})

\* PHP empty() on a string: "" and "0" are empty.
empty(s) == s = <<>> \/ s = S_zero

\* PHP trim() / JS String.prototype.trim().
trim(s) ==
    LET keep == {i \in DOMAIN s : s[i] \notin Whitespace}
    IN  IF keep = {} THEN <<>>
        ELSE SubSeq(s, CHOOSE i \in keep : \A j \in keep : i <= j,
                       CHOOSE i \in keep : \A j \in keep : i >= j)

EscChar(c) ==
    IF c = "<" THEN <<"&", "l", "t", ";">>
    ELSE IF c = "&" THEN <<"&", "a", "m", "p", ";">>
    ELSE <<c>>

RECURSIVE htmlspecialchars(_)
htmlspecialchars(s) ==
    IF Len(s) = 0 THEN <<>>
    ELSE IF Len(s) = 1 THEN EscChar(s[1])
    ELSE LET m == Len(s) \div 2
         IN  htmlspecialchars(SubSeq(s, 1, m)) \o htmlspecialchars(SubSeq(s, m + 1, Len(s)))

\* config.php sanitizeInput(): trim, then neutralise HTML-significant characters.
sanitizeInput(raw) == htmlspecialchars(trim(raw))

\* config.php validateEmail(): local@domain, both parts non-empty, no
\* whitespace, exactly one "@".
validateEmail(e) ==
    /\ Len(e) > 0
    /\ \A i \in DOMAIN e : e[i] \notin Whitespace
    /\ Cardinality({i \in DOMAIN e : e[i] = "@"}) = 1
    /\ e[1] # "@"
    /\ e[Len(e)] # "@"

\* ------------------------------------------------------------------------
\* process_form.php: the request
\* ------------------------------------------------------------------------
FieldNames == {"fullname", "email", "subject", "reason", "message"}

isset(post, k) == k \in DOMAIN post

\* isset($_POST[k]) ? sanitizeInput($_POST[k]) : ''
PostField(post, k) == IF isset(post, k) THEN sanitizeInput(post[k]) ELSE <<>>

SanitizeAll(post) ==
    [fullname |-> PostField(post, "fullname"),
     email    |-> PostField(post, "email"),
     subject  |-> PostField(post, "subject"),
     reason   |-> PostField(post, "reason"),
     message  |-> PostField(post, "message")]

\* ------------------------------------------------------------------------
\* process_form.php: validation block
\* ------------------------------------------------------------------------
E_NameRequired == "Full name is required."
E_NameShort == "Full name must be at least 2 characters long."
E_NameLong == "Full name must not exceed 100 characters."
E_EmailRequired == "Email address is required."
E_EmailInvalid == "Please provide a valid email address."
E_EmailLong == "Email address is too long."
E_SubjectRequired == "Subject is required."
E_SubjectShort == "Subject must be at least 3 characters long."
E_SubjectLong == "Subject must not exceed 255 characters."
E_ReasonRequired == "Please select a reason for contact."
E_ReasonInvalid == "Invalid reason selected."
E_MessageRequired == "Message is required."
E_MessageShort == "Message must be at least 10 characters long."
E_MessageLong == "Message must not exceed 5000 characters."

NameMessages == {E_NameRequired, E_NameShort, E_NameLong}
EmailMessages == {E_EmailRequired, E_EmailInvalid, E_EmailLong}
SubjectMessages == {E_SubjectRequired, E_SubjectShort, E_SubjectLong}
ReasonMessages == {E_ReasonRequired, E_ReasonInvalid}
MessageMessages == {E_MessageRequired, E_MessageShort, E_MessageLong}

validReasons == {S_job, S_project, S_feedback, S_other}

ValidateFullName(v) ==
    IF empty(v) THEN <<E_NameRequired>>
    ELSE IF strlen(v) < MinNameLen THEN <<E_NameShort>>
    ELSE IF strlen(v) > MaxNameLen THEN <<E_NameLong>>
    ELSE <<>>

ValidateEmailField(v) ==
    IF empty(v) THEN <<E_EmailRequired>>
    ELSE IF ~validateEmail(v) THEN <<E_EmailInvalid>>
    ELSE IF strlen(v) > MaxEmailLen THEN <<E_EmailLong>>
    ELSE <<>>

ValidateSubject(v) ==
    IF empty(v) THEN <<E_SubjectRequired>>
    ELSE IF strlen(v) < MinSubjectLen THEN <<E_SubjectShort>>
    ELSE IF strlen(v) > MaxSubjectLen THEN <<E_SubjectLong>>
    ELSE <<>>

ValidateReason(v) ==
    IF empty(v) THEN <<E_ReasonRequired>>
    ELSE IF v \notin validReasons THEN <<E_ReasonInvalid>>
    ELSE <<>>

ValidateMessage(v) ==
    IF empty(v) THEN <<E_MessageRequired>>
    ELSE IF strlen(v) < MinMessageLen THEN <<E_MessageShort>>
    ELSE IF strlen(v) > MaxMessageLen THEN <<E_MessageLong>>
    ELSE <<>>

\* $errors after the five independent checks, in the order of the script.
ValidateFields(f) ==
    ValidateFullName(f.fullname) \o ValidateEmailField(f.email)
        \o ValidateSubject(f.subject) \o ValidateReason(f.reason)
        \o ValidateMessage(f.message)

\* ------------------------------------------------------------------------
\* State
\* ------------------------------------------------------------------------
VARIABLES
    \* process_form.php, one run of the script
    srvPc,        \* position of the script
    req,          \* $_SERVER['REQUEST_METHOD'], $_POST, and who sent it
    fields,       \* $fullName, $email, $subject, $reason, $message
    errors,       \* $errors
    conn,         \* $conn: "unset", "open", "closed"
    stmt,         \* $stmt: "unset", "false", "open", "closed"
    exc,          \* message of the exception being handled
    status,       \* http_response_code
    out,          \* JSON documents echoed so far
    errlog,       \* error_log lines written by this run
    \* the database
    store,        \* rows of contact_messages
    nextId,       \* AUTO_INCREMENT counter
    rowsAtStart,  \* number of rows when the current run began
    DEBUG_MODE,   \* config.php constant
    \* the page
    form,         \* values of #fullname, #email, #reason, #subject, #message
    fieldErrors,  \* fields carrying an inline .error-message
    btn,          \* the submit button: disabled, textContent
    formVisible,  \* form.style.display # 'none'
    successDivs,  \* attached .success-message elements, each with its timer
    errorBanner,  \* text of the attached .submission-error, <<>> if none
    errorTimer,   \* the attached banner's removal timer is pending
    calls,        \* running invocations of the submit handler
    fetches,      \* number of fetch() calls made
    submits,      \* number of submit events handled
    handled       \* what the last finished listener run got from fetch

srvVars == <<srvPc, req, fields, errors, conn, stmt, exc, status, out, errlog>>
dbVars == <<store, nextId, rowsAtStart, DEBUG_MODE>>
pageVars == <<form, fieldErrors, btn, formVisible, successDivs, errorBanner,
              errorTimer, calls, fetches, submits, handled>>
vars == <<srvVars, dbVars, pageVars>>

\* ------------------------------------------------------------------------
\* Requests
\* ------------------------------------------------------------------------
NoPost == [k \in {} |-> <<>>]
NoFields == [fullname |-> <<>>, email |-> <<>>, subject |-> <<>>,
             reason |-> <<>>, message |-> <<>>]
NoReq == [method |-> "NONE", post |-> NoPost, call |-> 0]

ValidPost == [fullname |-> S_Jane, email |-> S_mail, subject |-> S_Hey,
              reason |-> S_job, message |-> Rep("m", MinMessageLen)]
InvalidPost == [fullname |-> S_J, email |-> S_bad, subject |-> S_Hi,
                reason |-> <<>>, message |-> S_short]
PaddedPost == [fullname |-> S_JanePadded, email |-> S_mail, subject |-> S_Hey,
               reason |-> S_other, message |-> <<"<">> \o Rep("m", 8)]

WithField(post, k, v) == [x \in DOMAIN post \cup {k} |-> IF x = k THEN v ELSE post[x]]

\* Requests that reach the endpoint without the page's script.
DirectPosts ==
    { NoPost, ValidPost, InvalidPost, PaddedPost,
      WithField(ValidPost, "website", <<>>),
      WithField(ValidPost, "website", S_spamUrl),
      WithField(ValidPost, "website", S_zero),
      WithField(InvalidPost, "website", S_spamUrl),
      WithField(ValidPost, "id", S_nine) }

DirectRequests ==
    {[method |-> "GET", post |-> NoPost, call |-> 0]}
        \cup {[method |-> "POST", post |-> p, call |-> 0] : p \in DirectPosts}

\* ------------------------------------------------------------------------
\* process_form.php: responses
\* ------------------------------------------------------------------------
M_Method == "Method not allowed. Only POST requests are accepted."
M_ValidationPrefix == "Validation failed: "
M_Spam == "Spam detected."
M_Thanks == "Thank you for your message! I will get back to you soon."
M_DbPrefix == "Database error: "
M_Generic == "An error occurred while processing your request. Please try again later."
M_LogPrefix == "Form submission error: "
X_Connect == "Connection failed: "
X_Prepare == "Failed to prepare statement: "
X_Execute == "Failed to insert data: "
DbErrors == {"db-error-1045", "db-error-2006"}

Json(success, message, errs, id) ==
    [json |-> TRUE, success |-> success, message |-> message,
     errors |-> errs, id |-> id]

MethodNotAllowedStatus == 405
ValidationStatus == 400
SpamStatus == 400
ErrorStatus == 500
SuccessStatus == 200

ValidationBody(errs) == Json(FALSE, <<M_ValidationPrefix>> \o errs, errs, 0)
SpamBody == Json(FALSE, <<M_Spam>>, <<>>, 0)
SuccessBody(insertId) == Json(TRUE, <<M_Thanks>>, <<>>, insertId)
ErrorBody_AlwaysDetailed(debug, e) ==
    Json(FALSE, <<M_DbPrefix>> \o e, <<>>, 0)
ErrorBody(debug, e) ==
    Json(FALSE, IF debug THEN <<M_DbPrefix>> \o e ELSE <<M_Generic>>, <<>>, 0)

\* isset($_POST['website']) && !empty($_POST['website'])
HoneypotHit(post) == isset(post, "website") /\ ~empty(post["website"])

\* exit; after the validation-failure response
ValidationExit_Missing == "honeypot"
ValidationExit == "done"

insert_id_AfterIncrement(counter) == counter + 1
\* $stmt->insert_id after a successful execute
insert_id(counter) == counter

\* if (isset($stmt) && $stmt) $stmt->close();
CloseStmt(s) == IF s = "open" THEN "closed" ELSE s
CloseConn_Forgotten(c) == c
\* if (isset($conn) && $conn) $conn->close();
CloseConn(c) == IF c = "open" THEN "closed" ELSE c

\* ------------------------------------------------------------------------
\* process_form.php: the script, step by step
\* ------------------------------------------------------------------------
SrvStart(r) ==
    /\ srvPc = "idle"
    /\ Len(store) < MaxRows
    /\ srvPc' = "method"
    /\ req' = r
    /\ rowsAtStart' = Len(store)
    /\ UNCHANGED <<fields, errors, conn, stmt, exc, status, out, errlog,
                   store, nextId, DEBUG_MODE>>

\* A request sent around the page's script (curl, a bot, a GET).
SrvReceiveDirect ==
    /\ \E r \in DirectRequests : SrvStart(r)
    /\ UNCHANGED pageVars

\* Request-method check, then retrieval and sanitising of the form data.
SrvMethod ==
    /\ srvPc = "method"
    /\ IF req.method # "POST"
       THEN /\ status' = MethodNotAllowedStatus
            /\ out' = Append(out, Json(FALSE, <<M_Method>>, <<>>, 0))
            /\ srvPc' = "done"
            /\ UNCHANGED fields
       ELSE /\ fields' = SanitizeAll(req.post)
            /\ srvPc' = "validate"
            /\ UNCHANGED <<status, out>>
    /\ UNCHANGED <<req, errors, conn, stmt, exc, errlog, dbVars, pageVars>>

\* Validation block and the exit on a non-empty $errors.
SrvValidate ==
    /\ srvPc = "validate"
    /\ errors' = ValidateFields(fields)
    /\ IF errors' # <<>>
       THEN /\ status' = ValidationStatus
            /\ out' = Append(out, ValidationBody(errors'))
            /\ srvPc' = ValidationExit
       ELSE /\ srvPc' = "honeypot"
            /\ UNCHANGED <<status, out>>
    /\ UNCHANGED <<req, fields, conn, stmt, exc, errlog, dbVars, pageVars>>

\* Honeypot check.
SrvHoneypot ==
    /\ srvPc = "honeypot"
    /\ IF HoneypotHit(req.post)
       THEN /\ status' = SpamStatus
            /\ out' = Append(out, SpamBody)
            /\ srvPc' = "done"
       ELSE /\ srvPc' = "connect"
            /\ UNCHANGED <<status, out>>
    /\ UNCHANGED <<req, fields, errors, conn, stmt, exc, errlog, dbVars, pageVars>>

\* config.php getDatabaseConnection(): hands back an open connection, or
\* surfaces the failure to the caller as an exception.
getDatabaseConnection == {"open", "throws"}

\* $conn = getDatabaseConnection();
SrvConnect ==
    /\ srvPc = "connect"
    /\ \E r \in getDatabaseConnection :
         IF r = "open"
         THEN /\ conn' = "open"
              /\ srvPc' = "prepare"
              /\ UNCHANGED exc
         ELSE \E d \in DbErrors :
                /\ exc' = <<X_Connect, d>>
                /\ srvPc' = "catch"
                /\ UNCHANGED conn
    /\ UNCHANGED <<req, fields, errors, stmt, status, out, errlog, dbVars, pageVars>>

\* $stmt = $conn->prepare($sql); if (!$stmt) throw
SrvPrepare ==
    /\ srvPc = "prepare"
    /\ \/ /\ stmt' = "open"
          /\ srvPc' = "execute"
          /\ UNCHANGED exc
       \/ \E d \in DbErrors :
            /\ stmt' = "false"
            /\ exc' = <<X_Prepare, d>>
            /\ srvPc' = "catch"
    /\ UNCHANGED <<req, fields, errors, conn, status, out, errlog, dbVars, pageVars>>

Row(id, f, r) ==
    [id |-> id, fullname |-> f.fullname, email |-> f.email,
     subject |-> f.subject, reason |-> f.reason, message |-> f.message,
     origin |-> r]

\* bind_param, execute; on success insert_id, close both, respond 200;
\* otherwise throw.  A failed insert may still use up a counter value.
SrvExecute ==
    /\ srvPc = "execute"
    /\ \/ /\ store' = Append(store, Row(nextId, fields, req))
          /\ nextId' = nextId + 1
          /\ stmt' = "closed"
          /\ conn' = "closed"
          /\ status' = SuccessStatus
          /\ out' = Append(out, SuccessBody(insert_id(nextId)))
          /\ srvPc' = "done"
          /\ UNCHANGED exc
       \/ \E d \in DbErrors, burn \in {0, 1} :
            /\ nextId + burn <= MaxId
            /\ exc' = <<X_Execute, d>>
            /\ nextId' = nextId + burn
            /\ srvPc' = "catch"
            /\ UNCHANGED <<store, stmt, conn, status, out>>
    /\ UNCHANGED <<req, fields, errors, errlog, rowsAtStart, DEBUG_MODE, pageVars>>

\* catch (Exception $e): log, close what is open, respond 500.
SrvCatch ==
    /\ srvPc = "catch"
    /\ errlog' = Append(errlog, <<M_LogPrefix>> \o exc)
    /\ stmt' = CloseStmt(stmt)
    /\ conn' = CloseConn(conn)
    /\ status' = ErrorStatus
    /\ out' = Append(out, ErrorBody(DEBUG_MODE, exc))
    /\ srvPc' = "done"
    /\ UNCHANGED <<req, fields, errors, exc, dbVars, pageVars>>

\* ------------------------------------------------------------------------
\* The page: validateForm and its helpers
\* ------------------------------------------------------------------------
C_Name == "Please enter your full name"
C_EmailRequired == "Please enter your email address"
C_EmailInvalid == "Please enter a valid email address"
C_Reason == "Please select a reason for contact"
C_Subject == "Please enter a subject"
C_MessageRequired == "Please enter your message"
C_MessageShort == "Message must be at least 10 characters long"

B_Failed == "Failed to send message. Please try again."
B_Server == "Server error. Please try again later."
B_Network == "Network error. Please check your connection and try again."

L_Submit == "Send Message"
L_Sending == "Sending..."

\* /^[^\s@]+@[^\s@]+\.[^\s@]+$/
isValidEmail(e) ==
    /\ \A i \in DOMAIN e : e[i] \notin Whitespace
    /\ Cardinality({i \in DOMAIN e : e[i] = "@"}) = 1
    /\ \E p \in DOMAIN e :
         /\ e[p] = "@"
         /\ p > 1
         /\ \E q \in DOMAIN e : e[q] = "." /\ q >= p + 2 /\ q < Len(e)

\* The fields validateForm marks with showError, with the text shown.
ClientFieldErrors(f) ==
    (IF trim(f.fullname) = <<>> THEN {<<"fullname", C_Name>>} ELSE {})
    \cup (IF trim(f.email) = <<>> THEN {<<"email", C_EmailRequired>>}
          ELSE IF ~isValidEmail(trim(f.email)) THEN {<<"email", C_EmailInvalid>>}
          ELSE {})
    \cup (IF f.reason = <<>> THEN {<<"reason", C_Reason>>} ELSE {})
    \cup (IF trim(f.subject) = <<>> THEN {<<"subject", C_Subject>>} ELSE {})
    \cup (IF trim(f.message) = <<>> THEN {<<"message", C_MessageRequired>>}
          ELSE IF Len(trim(f.message)) < ClientMinMessageLen
               THEN {<<"message", C_MessageShort>>}
          ELSE {})

validateForm(f) == ClientFieldErrors(f) = {}

SubmitProceeds_NoReturn(valid) == TRUE
\* if (!validateForm(form)) return;
SubmitProceeds(valid) == valid

DisableButton_Missing(b) == b
\* submitButton.disabled = true; textContent = 'Sending...'
DisableButton(b) == [disabled |-> TRUE, text |-> L_Sending]

FinallyButton_Missing(b, originalButtonText) == b
\* finally: submitButton.disabled = false; textContent = originalButtonText
FinallyButton(b, originalButtonText) == [disabled |-> FALSE, text |-> originalButtonText]

\* new FormData(form): the named controls with their current values
FormData(f) == f

\* ------------------------------------------------------------------------
\* The page: what the user can type
\* ------------------------------------------------------------------------
EmptyForm == NoFields
ServerRejectedForm == [fullname |-> S_J, email |-> S_mail, subject |-> S_Hi,
                       reason |-> S_job, message |-> Rep("m", ClientMinMessageLen)]
BlankNameForm == [ValidPost EXCEPT !.fullname = <<" ">>]
NoDotForm == [ValidPost EXCEPT !.email = S_mailNoDot]
\* The form carries the hidden "website" control and something filled it in.
HoneypotFilledForm == WithField(ValidPost, "website", S_spamUrl)
FormFills == {ValidPost, InvalidPost, ServerRejectedForm, BlankNameForm, NoDotForm,
              HoneypotFilledForm}

\* ------------------------------------------------------------------------
\* The network between page and endpoint
\* ------------------------------------------------------------------------
NoResp == [status |-> 0, body |-> <<>>]

F_Refused == "Request refused."

\* Answers that do not come from the script's own echo: a body that is not
\* JSON (an error page, PHP notices in the output), a gateway's status, or
\* an OK answer reporting failure.
ForeignResponses ==
    { [status |-> 200, body |-> <<[json |-> FALSE, success |-> FALSE,
                                   message |-> <<>>, errors |-> <<>>, id |-> 0]>>],
      [status |-> 502, body |-> <<>>],
      [status |-> 200, body |-> <<Json(FALSE, <<>>, <<>>, 0)>>],
      [status |-> 200, body |-> <<Json(FALSE, <<F_Refused>>, <<>>, 0)>>] }

ResponseOk_Ignored(r) == TRUE

\* response.ok
ResponseOk(r) == r.status >= 200 /\ r.status <= 299

\* response.json() resolves only for a body that is one JSON document
JsonParses(r) == Len(r.body) = 1 /\ r.body[1].json

RemoveAt(sq, i) == SubSeq(sq, 1, i - 1) \o SubSeq(sq, i + 1, Len(sq))

\* ------------------------------------------------------------------------
\* The page: events
\* ------------------------------------------------------------------------
\* The user changes the values of the form's controls.
UserFill ==
    /\ formVisible
    /\ \E f \in FormFills : form' = f
    /\ UNCHANGED <<fieldErrors, btn, formVisible, successDivs, errorBanner,
                   errorTimer, calls, fetches, submits, handled>>
    /\ UNCHANGED <<srvVars, dbVars>>

\* The submit listener up to its first await.  A submit event is delivered
\* only for a displayed form whose submit button is not disabled.
Submit ==
    /\ formVisible
    /\ ~btn.disabled
    /\ submits < MaxSubmits
    /\ submits' = submits + 1
    /\ fieldErrors' = ClientFieldErrors(form)
    /\ IF SubmitProceeds(validateForm(form))
       THEN /\ btn' = DisableButton(btn)
            /\ fetches' = fetches + 1
            /\ calls' = Append(calls, [id |-> fetches + 1, pc |-> "fetch",
                                      stage |-> "sent", body |-> FormData(form),
                                      resp |-> NoResp,
                                      originalButtonText |-> btn.text])
       ELSE UNCHANGED <<btn, fetches, calls>>
    /\ UNCHANGED <<form, formVisible, successDivs, errorBanner, errorTimer, handled>>
    /\ UNCHANGED <<srvVars, dbVars>>

\* The endpoint starts on a request the page sent.
SrvReceiveClient ==
    /\ \E i \in DOMAIN calls :
         /\ calls[i].stage = "sent"
         /\ SrvStart([method |-> "POST", post |-> calls[i].body, call |-> calls[i].id])
         /\ calls' = [calls EXCEPT ![i].stage = "atServer"]
    /\ UNCHANGED <<form, fieldErrors, btn, formVisible, successDivs, errorBanner,
                   errorTimer, fetches, submits, handled>>

\* The script ends; its status and output travel back to the sender.
SrvExit ==
    /\ srvPc = "done"
    /\ srvPc' = "idle"
    /\ req' = NoReq
    /\ fields' = NoFields
    /\ errors' = <<>>
    /\ conn' = "unset"
    /\ stmt' = "unset"
    /\ exc' = <<>>
    /\ status' = 200
    /\ out' = <<>>
    /\ errlog' = <<>>
    /\ calls' = [i \in DOMAIN calls |->
                   IF calls[i].id = req.call /\ calls[i].stage = "atServer"
                   THEN [calls[i] EXCEPT !.stage = "responded",
                                         !.resp = [status |-> status, body |-> out]]
                   ELSE calls[i]]
    /\ UNCHANGED <<form, fieldErrors, btn, formVisible, successDivs, errorBanner,
                   errorTimer, fetches, submits, handled>>
    /\ UNCHANGED dbVars

\* Something other than the script answers the request.
ForeignAnswer ==
    /\ \E i \in DOMAIN calls, r \in ForeignResponses :
         /\ calls[i].stage = "sent"
         /\ calls' = [calls EXCEPT ![i].stage = "responded", ![i].resp = r]
    /\ UNCHANGED <<form, fieldErrors, btn, formVisible, successDivs, errorBanner,
                   errorTimer, fetches, submits, handled>>
    /\ UNCHANGED <<srvVars, dbVars>>

\* showSubmissionError(form, msg) followed by the finally block.
FailAndFinish(i, msg, r) ==
    /\ errorBanner' = msg
    /\ errorTimer' = TRUE
    /\ btn' = FinallyButton(btn, calls[i].originalButtonText)
    /\ calls' = RemoveAt(calls, i)
    /\ handled' = r
    /\ UNCHANGED <<form, fieldErrors, formVisible, successDivs, fetches, submits>>

\* fetch() rejects: catch, then finally.
FetchRejects ==
    /\ \E i \in DOMAIN calls :
         /\ calls[i].pc = "fetch"
         /\ FailAndFinish(i, <<B_Network>>, NoResp)
    /\ UNCHANGED <<srvVars, dbVars>>

\* fetch() resolves: the response.ok test.
FetchResolves ==
    /\ \E i \in DOMAIN calls :
         /\ calls[i].pc = "fetch"
         /\ calls[i].stage = "responded"
         /\ IF ResponseOk(calls[i].resp)
            THEN /\ calls' = [calls EXCEPT ![i].pc = "json"]
                 /\ UNCHANGED <<form, fieldErrors, btn, formVisible, successDivs,
                                errorBanner, errorTimer, fetches, submits, handled>>
            ELSE FailAndFinish(i, <<B_Server>>, calls[i].resp)
    /\ UNCHANGED <<srvVars, dbVars>>

\* response.json() settles: success, reported failure, or a rejected parse.
JsonSettles ==
    /\ \E i \in DOMAIN calls :
         /\ calls[i].pc = "json"
         /\ IF ~JsonParses(calls[i].resp)
            THEN FailAndFinish(i, <<B_Network>>, calls[i].resp)
            ELSE LET result == calls[i].resp.body[1]
                 IN  IF result.success
                     THEN \* showSuccessMessage(form), then finally
                          /\ formVisible' = FALSE
                          /\ successDivs' = successDivs + 1
                          /\ btn' = FinallyButton(btn, calls[i].originalButtonText)
                          /\ calls' = RemoveAt(calls, i)
                          /\ handled' = calls[i].resp
                          /\ UNCHANGED <<form, fieldErrors, errorBanner, errorTimer,
                                         fetches, submits>>
                     ELSE FailAndFinish(i, IF result.message # <<>> THEN result.message
                                           ELSE <<B_Failed>>, calls[i].resp)
    /\ UNCHANGED <<srvVars, dbVars>>

\* The 5 s timer of showSubmissionError removes its banner.
ErrorTimerFires ==
    /\ errorTimer
    /\ errorBanner' = <<>>
    /\ errorTimer' = FALSE
    /\ UNCHANGED <<form, fieldErrors, btn, formVisible, successDivs, calls,
                   fetches, submits, handled>>
    /\ UNCHANGED <<srvVars, dbVars>>

ResetForm_Missing(f) == f

\* form.reset(): every control back to its initial value
ResetForm(f) == EmptyForm

\* The 8 s timer of showSuccessMessage: reset, remove the message, show the form.
SuccessTimerFires ==
    /\ successDivs > 0
    /\ form' = ResetForm(form)
    /\ successDivs' = successDivs - 1
    /\ formVisible' = TRUE
    /\ UNCHANGED <<fieldErrors, btn, errorBanner, errorTimer, calls, fetches, submits, handled>>
    /\ UNCHANGED <<srvVars, dbVars>>

\* ------------------------------------------------------------------------
\* Specification of page, network, endpoint and database together
\* ------------------------------------------------------------------------
Init ==
    /\ srvPc = "idle"
    /\ req = NoReq
    /\ fields = NoFields
    /\ errors = <<>>
    /\ conn = "unset"
    /\ stmt = "unset"
    /\ exc = <<>>
    /\ status = 200
    /\ out = <<>>
    /\ errlog = <<>>
    /\ store = <<>>
    /\ nextId = 1
    /\ rowsAtStart = 0
    /\ DEBUG_MODE \in BOOLEAN
    /\ form = EmptyForm
    /\ fieldErrors = {}
    /\ btn = [disabled |-> FALSE, text |-> L_Submit]
    /\ formVisible = TRUE
    /\ successDivs = 0
    /\ errorBanner = <<>>
    /\ errorTimer = FALSE
    /\ calls = <<>>
    /\ fetches = 0
    /\ submits = 0
    /\ handled = NoResp

\* One step of a running script.
SrvStep ==
    \/ SrvMethod
    \/ SrvValidate
    \/ SrvHoneypot
    \/ SrvConnect
    \/ SrvPrepare
    \/ SrvExecute
    \/ SrvCatch
    \/ SrvExit

Next ==
    \/ SrvReceiveClient
    \/ SrvStep
    \/ UserFill
    \/ Submit
    \/ ForeignAnswer
    \/ FetchRejects
    \/ FetchResolves
    \/ JsonSettles
    \/ ErrorTimerFires
    \/ SuccessTimerFires

Spec == Init /\ [][Next]_vars

\* The same, with what the browser guarantees: a timer that was set fires.
FairSpec == Spec /\ WF_vars(SuccessTimerFires)

\* ------------------------------------------------------------------------
\* Specification of the endpoint under arbitrary requests
\* ------------------------------------------------------------------------
ServerNext ==
    \/ SrvReceiveDirect
    \/ SrvStep

ServerSpec == Init /\ [][ServerNext]_vars

\* ------------------------------------------------------------------------
\* Specification of the validation block alone, over sanitised field values
\* ------------------------------------------------------------------------
NameValues == {<<>>, S_zero, S_J, S_eacute, S_Jo, Rep("a", MaxNameLen),
               Rep("a", MaxNameLen + 1)}
EmailValues == {<<>>, S_zero, S_bad, S_mail,
                Rep("a", MaxEmailLen - 4) \o <<"@", "b", ".", "c">>,
                Rep("a", MaxEmailLen - 3) \o <<"@", "b", ".", "c">>}
SubjectValues == {<<>>, S_Hi, S_Hey, Rep("a", MaxSubjectLen),
                  Rep("a", MaxSubjectLen + 1)}
ReasonValues == {<<>>, S_zero, S_Job} \cup validReasons
MessageValues == {<<>>, Rep("m", MinMessageLen - 1), Rep("m", MinMessageLen),
                  S_eacute \o Rep("m", MinMessageLen - 2),
                  Rep("m", MaxMessageLen), Rep("m", MaxMessageLen + 1)}

SanitisedFields ==
    [fullname : NameValues, email : EmailValues, subject : SubjectValues,
     reason : ReasonValues, message : MessageValues]

ValidatorInit ==
    /\ srvPc = "validate"
    /\ fields \in SanitisedFields
    /\ req = [method |-> "POST", post |-> fields, call |-> 0]
    /\ errors = <<>>
    /\ conn = "unset"
    /\ stmt = "unset"
    /\ exc = <<>>
    /\ status = 200
    /\ out = <<>>
    /\ errlog = <<>>
    /\ store = <<>>
    /\ nextId = 1
    /\ rowsAtStart = 0
    /\ DEBUG_MODE = FALSE
    /\ form = EmptyForm
    /\ fieldErrors = {}
    /\ btn = [disabled |-> FALSE, text |-> L_Submit]
    /\ formVisible = TRUE
    /\ successDivs = 0
    /\ errorBanner = <<>>
    /\ errorTimer = FALSE
    /\ calls = <<>>
    /\ fetches = 0
    /\ submits = 0
    /\ handled = NoResp

ValidatorSpec == ValidatorInit /\ [][SrvValidate]_vars

\* ========================================================================
\* Properties
\* ========================================================================
Elems(sq) == {sq[i] : i \in DOMAIN sq}

\* The script has produced its answer and is about to end.
Answered == srvPc = "done"

\* The honeypot field was sent and is not the empty string.
HoneypotNonEmpty(post) == isset(post, "website") /\ post["website"] # <<>>

\* C1 (as stated): every POST whose honeypot field is non-empty is answered
\* with the spam response (400, success=false, 'Spam detected.'), whatever
\* the other fields are.
C1_SpamAlways ==
    (Answered /\ req.method = "POST" /\ HoneypotNonEmpty(req.post))
        => (status = 400 /\ out = <<SpamBody>>)

\* C2: a run emits nothing before its terminal step and exactly one JSON
\* document at it; 405 for a non-POST, 400 with the error list for invalid
\* fields, 400 spam for a honeypot hit, 500 after a persistence failure,
\* 200 otherwise; success is true exactly for status 200.
C2_OneOutcome ==
    /\ ~Answered => out = <<>>
    /\ Answered =>
         /\ Len(out) = 1
         /\ status \in {200, 400, 405, 500}
         /\ out[1].success <=> (status = 200)
         /\ LET errs == ValidateFields(SanitizeAll(req.post))
            IN  IF req.method # "POST"
                  THEN status = 405 /\ out[1].message = <<M_Method>>
                ELSE IF errs # <<>>
                  THEN status = 400 /\ out[1].errors = errs
                       /\ out[1].message = <<M_ValidationPrefix>> \o errs
                ELSE IF HoneypotHit(req.post)
                  THEN status = 400 /\ out[1].message = <<M_Spam>>
                ELSE IF exc # <<>>
                  THEN status = 500
                ELSE status = 200

C2_Witness == Answered /\ status = 500 /\ Len(out) = 1 /\ req.method = "POST"

\* C3 (as stated): every stored row comes from a POST whose sanitised fields
\* pass validation and whose honeypot field was empty; a run answered 200
\* has added exactly one row, any other run none.
C3_RowsOnlyFromCleanPosts ==
    /\ \A i \in DOMAIN store :
         /\ store[i].origin.method = "POST"
         /\ ValidateFields(SanitizeAll(store[i].origin.post)) = <<>>
         /\ ~HoneypotNonEmpty(store[i].origin.post)
    /\ Answered => Len(store) - rowsAtStart = (IF status = 200 THEN 1 ELSE 0)

\* C4: no run ends with a connection or statement still open, whichever
\* step failed.
C4_Released ==
    (srvPc \in {"done", "idle"}) => (conn # "open" /\ stmt # "open")

C4_Witness ==
    Answered /\ status = 500 /\ conn = "closed" /\ stmt = "closed"

\* C5 (as stated): over the sanitised fields, a field has a message in the
\* error list exactly when it breaks its rule, lengths counted in
\* characters (name 2..100, email well-formed and at most 255, subject
\* 3..255, reason one of the four values, message 10..5000); an empty field
\* gets its own 'required' message; the list is empty exactly when all five
\* rules hold.
NameRule(v) == Len(v) >= MinNameLen /\ Len(v) <= MaxNameLen
EmailRule(v) == v # <<>> /\ validateEmail(v) /\ Len(v) <= MaxEmailLen
SubjectRule(v) == Len(v) >= MinSubjectLen /\ Len(v) <= MaxSubjectLen
ReasonRule(v) == v \in {S_job, S_project, S_feedback, S_other}
MessageRule(v) == Len(v) >= MinMessageLen /\ Len(v) <= MaxMessageLen

C5_ValidatorRules ==
    (srvPc \in {"done", "honeypot"} /\ req.method = "POST") =>
        LET has(msgs) == Elems(errors) \cap msgs # {}
        IN  /\ has(NameMessages) <=> ~NameRule(fields.fullname)
            /\ has(EmailMessages) <=> ~EmailRule(fields.email)
            /\ has(SubjectMessages) <=> ~SubjectRule(fields.subject)
            /\ has(ReasonMessages) <=> ~ReasonRule(fields.reason)
            /\ has(MessageMessages) <=> ~MessageRule(fields.message)
            /\ fields.fullname = <<>> => E_NameRequired \in Elems(errors)
            /\ fields.email = <<>> => E_EmailRequired \in Elems(errors)
            /\ fields.subject = <<>> => E_SubjectRequired \in Elems(errors)
            /\ fields.reason = <<>> => E_ReasonRequired \in Elems(errors)
            /\ fields.message = <<>> => E_MessageRequired \in Elems(errors)
            /\ errors = <<>> <=>
                 (NameRule(fields.fullname) /\ EmailRule(fields.email)
                  /\ SubjectRule(fields.subject) /\ ReasonRule(fields.reason)
                  /\ MessageRule(fields.message))

\* C6: after a persistence failure the answer is 500 with success=false and
\* the exception text is in the server log; with debug mode off the message
\* is the fixed generic one and holds no part of the exception text, with
\* debug mode on it is the prefixed exception text.
C6_NoLeak ==
    (Answered /\ exc # <<>>) =>
        /\ status = 500
        /\ Len(out) = 1
        /\ ~out[1].success
        /\ (<<M_LogPrefix>> \o exc) \in Elems(errlog)
        /\ ~DEBUG_MODE => (out[1].message = <<M_Generic>>
                           /\ Elems(out[1].message) \cap Elems(exc) = {})
        /\ DEBUG_MODE => out[1].message = <<M_DbPrefix>> \o exc

C6_Witness == Answered /\ exc # <<>> /\ ~DEBUG_MODE /\ stmt = "closed"

\* C7: the id of a success response is the id the store gave the row this
\* request inserted; ids in the store are distinct and increasing, and the
\* id does not depend on what the client sent.
C7_IdFromStore ==
    /\ \A i, j \in DOMAIN store : i < j => store[i].id < store[j].id
    /\ (Answered /\ status = 200) =>
         /\ Len(store) = rowsAtStart + 1
         /\ store[Len(store)].origin = req
         /\ out[1].id = store[Len(store)].id
         /\ out[1].id = nextId - 1

C7_Witness ==
    Answered /\ status = 200 /\ isset(req.post, "id") /\ out[1].id > Len(store)

\* C8: a submit handler run ends only with the button enabled and its label
\* restored, whatever the outcome of the request; while no run is in
\* progress the button is enabled.
C8_ReEnabled ==
    /\ [](calls = <<>> => (~btn.disabled /\ btn.text = L_Submit))
    /\ [][Len(calls') < Len(calls) => (~btn'.disabled /\ btn'.text = L_Submit)]_vars

C8_Witness ==
    fetches > 0 /\ calls = <<>> /\ ~btn.disabled /\ errorBanner = <<B_Network>>

\* C9: a submit event with a form that fails validateForm issues no request
\* and leaves the button alone; one with a form that passes issues exactly
\* one request; requests are issued by submit events only.
C9_OneRequestPerValidSubmit ==
    /\ [][submits' = submits + 1 =>
            IF validateForm(form)
            THEN fetches' = fetches + 1 /\ Len(calls') = Len(calls) + 1
            ELSE fetches' = fetches /\ calls' = calls /\ btn' = btn]_vars
    /\ [][fetches' # fetches => submits' = submits + 1]_vars

C9_Witness ==
    submits = 2 /\ fetches = 1 /\ fieldErrors # {} /\ ~btn.disabled /\ calls = <<>>

\* C10: at most one request of the form is unsettled at any time; while one
\* is, the button is disabled, and no request is issued while the button is
\* disabled.
C10_OneInFlight ==
    /\ [](Len(calls) <= 1 /\ (calls # <<>> => btn.disabled))
    /\ [][btn.disabled => fetches' = fetches]_vars

C10_Witness ==
    fetches = 2 /\ Len(calls) = 1 /\ calls[1].pc = "fetch" /\ btn.disabled

\* C11 (as stated): the page's validation mirrors the endpoint's: a submit
\* event sends its request exactly when the endpoint's validator, given the
\* same field values, returns an empty error list.
C11_ClientMirrorsServer ==
    [][submits' = submits + 1 =>
         ((fetches' = fetches + 1)
              <=> (ValidateFields(SanitizeAll(FormData(form))) = <<>>))]_vars

\* A listener run ends in this step; handled' is what its fetch gave it.
RunEnds == Len(calls') < Len(calls)
Is2xx(r) == r.status \in 200..299
ReportsSuccess(r) == Is2xx(r) /\ Len(r.body) = 1 /\ r.body[1].json /\ r.body[1].success
PageIdle ==
    /\ successDivs = 0
    /\ formVisible
    /\ form = EmptyForm
    /\ ~btn.disabled
    /\ calls = <<>>

\* C12: a run that got an OK response with success=true hides the form and
\* attaches the confirmation; while the confirmation is attached the form
\* stays hidden; the step that removes it shows the form with its fields
\* reset and the button enabled; and a set timer fires, so an attached
\* confirmation always leads to the idle page.
C12_SuccessThenIdle ==
    /\ [][(RunEnds /\ ReportsSuccess(handled'))
             => (~formVisible' /\ successDivs' = successDivs + 1)]_vars
    /\ [](successDivs > 0 => (successDivs = 1 /\ ~formVisible /\ calls = <<>>))
    /\ [][successDivs' < successDivs => PageIdle']_vars
    /\ (successDivs > 0) ~> PageIdle

C12_Witness == ReportsSuccess(handled) /\ store # <<>> /\ PageIdle

\* Texts of the endpoint's success=false responses.
ServerFailureTexts ==
    {M_Method, M_ValidationPrefix, M_Spam, M_DbPrefix, M_Generic}
        \cup NameMessages \cup EmailMessages \cup SubjectMessages
        \cup ReasonMessages \cup MessageMessages \cup DbErrors
FixedBanners == {<<B_Server>>, <<B_Network>>, <<B_Failed>>}

\* C13: a run that got a non-2xx response shows the fixed 'Server error'
\* banner; a banner text taken from a response body appears only for a 2xx
\* response whose body parses and has success=false; every success=false
\* answer of the endpoint has a non-2xx status, so none of the endpoint's
\* failure texts is ever in the banner.
C13_ServerMessagesNotShown ==
    /\ [][RunEnds =>
            /\ (handled'.status # 0 /\ ~Is2xx(handled')) => errorBanner' = <<B_Server>>
            /\ (errorBanner' # errorBanner /\ errorBanner' \notin FixedBanners) =>
                 /\ Is2xx(handled')
                 /\ Len(handled'.body) = 1
                 /\ handled'.body[1].json
                 /\ ~handled'.body[1].success
                 /\ errorBanner' = handled'.body[1].message]_vars
    /\ []((Answered /\ ~out[1].success) => status \notin 200..299)
    /\ [](Elems(errorBanner) \cap ServerFailureTexts = {})

C13_Witness ==
    errorBanner = <<B_Server>> /\ handled.status = 400 /\ handled.body = <<SpamBody>>

====
